---- MODULE Spec2Model ----
(***************************************************************************)
(* Model of src/proxy/proxy.py: a logging reverse proxy.  One inbound      *)
(* request is handled by the coroutine proxy(); its await points           *)
(* (request.body(), client.send(), upstream.aread(), every step of         *)
(* upstream.aiter_bytes()) separate the actions below.  A second request   *)
(* in flight on the same event loop is the frame held in other: the loop   *)
(* runs one coroutine at a time and changes over at the await points.      *)
(*                                                                         *)
(* Python values are tagged records, byte strings and text are sequences   *)
(* of fragments, and everything printed to sys.stdout is one sequence of   *)
(* write events.                                                           *)
(***************************************************************************)
EXTENDS Integers, Sequences, FiniteSets, TLC

VARIABLES LOG_BODIES, pc, request, headers, upstream, is_streaming,
          client, calls, response, requested, pulled, relayed, stdout, exception,
          other

vars == <<LOG_BODIES, pc, request, headers, upstream, is_streaming,
          client, calls, response, requested, pulled, relayed, stdout, exception,
          other>>

(***************************************************************************)
(* Bounds of the model.                                                    *)
(***************************************************************************)
MaxHeaders == 2
MaxChunks == 3

(***************************************************************************)
(* Program constants.                                                      *)
(***************************************************************************)
LastMessages == 3
RequestPreviewLen == 120
ResponsePreviewLen == 200

(***************************************************************************)
(* Python values.                                                          *)
(***************************************************************************)
None == [t |-> "none"]
PyBool(x) == [t |-> "bool", b |-> x]
PyInt(x) == [t |-> "int", i |-> x]
PyStr(x) == [t |-> "str", s |-> x]
PyList(x) == [t |-> "list", l |-> x]
PyDict(x) == [t |-> "dict", d |-> x]

\* A string literal of the program, as the text it holds.
Chars(k) ==
    CASE k = "delta" -> <<"d", "e", "l", "t", "a">>
      [] k = "text" -> <<"t", "e", "x", "t">>
      [] k = "content" -> <<"c", "o", "n", "t", "e", "n", "t">>
      [] k = "error" -> <<"e", "r", "r", "o", "r">>
      [] k = "?" -> <<"?">>
      [] k = "" -> <<>>
      [] OTHER -> <<k>>

Min(a, b) == IF a < b THEN a ELSE b
Max(a, b) == IF a > b THEN a ELSE b

\* The result of a piece of code that may raise: what it printed, and the
\* exception that left it ("none" when it ran to its end).
Ran(lines) == [lines |-> lines, exc |-> "none"]
Raised(lines, e) == [lines |-> lines, exc |-> e]

\* x.get(k, default): only a dict has the attribute.
HasGet(x) == x.t = "dict"
Get(x, k, default) == IF k \in DOMAIN x.d THEN x.d[k] ELSE default

\* len(x) exists for str, list and dict.
HasLen(x) == x.t \in {"str", "list", "dict"}
PyLen(x) ==
    CASE x.t = "str" -> Len(x.s)
      [] x.t = "list" -> Len(x.l)
      [] x.t = "dict" -> Cardinality(DOMAIN x.d)

\* bool(x)
Truthy(x) ==
    CASE x.t = "none" -> FALSE
      [] x.t = "bool" -> x.b
      [] x.t = "int" -> x.i # 0
      [] OTHER -> PyLen(x) > 0

\* k in x: membership in a dict's keys, a list's elements, a str's substrings;
\* any other operand raises TypeError.
CanContain(x) == x.t \in {"str", "list", "dict"}
Contains(x, k) ==
    CASE x.t = "dict" -> k \in DOMAIN x.d
      [] x.t = "list" -> \E i \in 1..Len(x.l) : x.l[i] = PyStr(Chars(k))
      [] x.t = "str" ->
            \E i \in 1..(Len(x.s) + 1) :
                /\ i + Len(Chars(k)) - 1 <= Len(x.s)
                /\ SubSeq(x.s, i, i + Len(Chars(k)) - 1) = Chars(k)

\* x[k] with a str key: defined on a dict that has the key.
CanSubscript(x, k) == x.t = "dict" /\ k \in DOMAIN x.d
SubscriptError(x, k) == IF x.t = "dict" THEN "KeyError" ELSE "TypeError"

\* s[:n].replace("\n", " ")
Preview(s, n) ==
    LET cut == SubSeq(s, 1, Min(n, Len(s)))
    IN [i \in 1..Len(cut) |-> IF cut[i] = "\n" THEN " " ELSE cut[i]]

\* l[-3:]
LastOf(l, n) == SubSeq(l, Max(1, Len(l) - n + 1), Len(l))

(***************************************************************************)
(* Byte strings and text are sequences of fragments.  InvalidByte is a     *)
(* byte that is not UTF-8; decoding with errors="replace" turns it into    *)
(* Replacement.                                                            *)
(***************************************************************************)
InvalidByte == "<FF>"
Replacement == "<U+FFFD>"
Whitespace == {" ", "\n", "\r"}
DataPrefix == "data: "
DoneMarker == "[DONE]"

Range(s) == {s[i] : i \in 1..Len(s)}

RECURSIVE Concat(_)
Concat(seqs) == IF seqs = <<>> THEN <<>> ELSE Head(seqs) \o Concat(Tail(seqs))

\* len(bytes)
RECURSIVE ByteLen(_)
ByteLen(b) ==
    IF b = <<>> THEN 0
    ELSE (IF Head(b) = InvalidByte THEN 1 ELSE Len(Head(b))) + ByteLen(Tail(b))

\* chunk.decode("utf-8", errors="replace")
decode(b) == [i \in 1..Len(b) |-> IF b[i] = InvalidByte THEN Replacement ELSE b[i]]

\* text.strip()
RECURSIVE strip(_)
strip(text) ==
    IF text = <<>> THEN <<>>
    ELSE IF Head(text) \in Whitespace THEN strip(Tail(text))
    ELSE IF text[Len(text)] \in Whitespace THEN strip(SubSeq(text, 1, Len(text) - 1))
    ELSE text

\* text.split("\n")
RECURSIVE split(_)
split(text) ==
    IF "\n" \notin Range(text) THEN <<text>>
    ELSE LET i == CHOOSE j \in 1..Len(text) :
                      text[j] = "\n" /\ \A k \in 1..(j - 1) : text[k] # "\n"
         IN <<SubSeq(text, 1, i - 1)>> \o split(SubSeq(text, i + 1, Len(text)))

(***************************************************************************)
(* The JSON documents of the model, by their text.                         *)
(***************************************************************************)
Word(k) == PyStr(Chars(k))
EmptyDict == PyDict([k \in {} |-> None])
TextDelta(s) == PyDict([delta |-> PyDict([text |-> PyStr(s)])])
Message(role, content) == PyDict([role |-> role, content |-> content])
LongText == [i \in 1..(RequestPreviewLen + 2) |-> IF i = 2 THEN "\n" ELSE "A"]

RequestDocuments ==
    ("{}" :> EmptyDict)
 @@ ("[1]" :> PyList(<<PyInt(1)>>))
 @@ ("{\"model\":\"m\",\"stream\":true}" :>
        PyDict([model |-> Word("m"), stream |-> PyBool(TRUE)]))
 @@ ("{\"model\":\"m\",\"messages\":[m1,m2,m3,m4]}" :>
        PyDict([model |-> Word("m"),
                messages |-> PyList(<<Message(Word("system"), PyStr(<<"s">>)),
                                      Message(Word("user"), PyStr(<<"h", "\n", "i">>)),
                                      Message(Word("assistant"), PyList(<<EmptyDict, EmptyDict>>)),
                                      PyDict([content |-> PyStr(LongText)])>>)]))
 @@ ("{\"messages\":[]}" :> PyDict([messages |-> PyList(<<>>)]))
 @@ ("{\"messages\":5}" :> PyDict([messages |-> PyInt(5)]))
 @@ ("{\"messages\":{}}" :> PyDict([messages |-> EmptyDict]))
 @@ ("{\"messages\":\"hi\"}" :> PyDict([messages |-> PyStr(<<"h", "i">>)]))
 @@ ("{\"messages\":[{\"role\":\"user\"},1]}" :>
        PyDict([messages |-> PyList(<<PyDict([role |-> Word("user")]), PyInt(1)>>)]))
 @@ ("{\"messages\":[{\"content\":null}]}" :>
        PyDict([messages |-> PyList(<<PyDict([content |-> None])>>)]))
 @@ ("{\"messages\":[{\"role\":null}]}" :>
        PyDict([messages |-> PyList(<<PyDict([role |-> None])>>)]))

ResponseDocuments ==
    ("{\"delta\":{\"text\":\"lo\"}}" :> TextDelta(<<"l", "o">>))
 @@ ("{\"delta\":{\"stop_reason\":\"end_turn\"}}" :>
        PyDict([delta |-> PyDict([stop_reason |-> Word("end_turn")])]))
 @@ ("{\"type\":\"ping\"}" :> PyDict([type |-> Word("ping")]))
 @@ ("5" :> PyInt(5))
 @@ ("{\"delta\":\"some text\"}" :>
        PyDict([delta |-> PyStr(<<"s", "o", "m", "e", " ", "t", "e", "x", "t">>)]))
 @@ ("{\"delta\":{\"text\":7}}" :> PyDict([delta |-> PyDict([text |-> PyInt(7)])]))
 @@ ("{\"content\":[{\"type\":\"text\",\"text\":\"Hi\\nthere\"},{\"type\":\"tool_use\"}]}" :>
        PyDict([content |-> PyList(<<PyDict([type |-> Word("text"),
                                             text |-> PyStr(<<"H", "i", "\n", "t", "h", "e", "r", "e">>)]),
                                     PyDict([type |-> Word("tool_use")])>>)]))
 @@ ("{\"content\":[{\"type\":\"text\"}]}" :>
        PyDict([content |-> PyList(<<PyDict([type |-> Word("text")])>>)]))
 @@ ("{\"content\":5}" :> PyDict([content |-> PyInt(5)]))
 @@ ("{\"error\":{\"type\":\"overloaded\"}}" :>
        PyDict([error |-> PyDict([type |-> Word("overloaded")])]))

Documents == RequestDocuments @@ ResponseDocuments

\* A document whose text arrives in two fragments.
SplitDocument == <<"{\"delta\":{\"te", "xt\":\"Hel\"}}">>
SplitValue == TextDelta(<<"H", "e", "l">>)

\* json.loads(str): the value, or JSONDecodeError.
loads(text) ==
    LET doc == strip(text)
    IN IF Len(doc) = 1 /\ doc[1] \in DOMAIN Documents
       THEN [exc |-> "none", val |-> Documents[doc[1]]]
       ELSE IF doc = SplitDocument THEN [exc |-> "none", val |-> SplitValue]
       ELSE [exc |-> "JSONDecodeError", val |-> None]

\* json.loads(bytes): the bytes are decoded strictly first.
json_loads(b) ==
    IF InvalidByte \in Range(b)
    THEN [exc |-> "UnicodeDecodeError", val |-> None]
    ELSE loads(b)

(***************************************************************************)
(* log(): one whole line on sys.stdout.  The label is formatted with       *)
(* {label:>10}, which raises TypeError for None, a list or a dict.         *)
(***************************************************************************)
Label(k) == PyStr(<<k>>)
LogLine(label, message) == [ev |-> "log", label |-> label, message |-> message]
log(label, message) ==
    IF label.t \in {"none", "list", "dict"}
    THEN Raised(<<>>, "TypeError")
    ELSE Ran(<<LogLine(label, message)>>)

\* Lines 53-59: the preview line of one message.
message_preview(msg) ==
    IF ~HasGet(msg) THEN Raised(<<>>, "AttributeError")
    ELSE LET role == Get(msg, "role", PyStr(Chars("?")))
             content == Get(msg, "content", PyStr(Chars("")))
         IN IF content.t = "str"
            THEN log(role, <<PyStr(Preview(content.s, RequestPreviewLen))>>)
            ELSE IF ~HasLen(content) THEN Raised(<<>>, "TypeError")
            ELSE log(role, <<PyInt(PyLen(content)), Label("content blocks")>>)

\* Lines 52-59: the loop over msgs[-3:], left at the first exception.
RECURSIVE message_previews(_)
message_previews(msgs) ==
    IF msgs = <<>> THEN Ran(<<>>)
    ELSE LET first == message_preview(Head(msgs))
         IN IF first.exc # "none" THEN first
            ELSE LET rest == message_previews(Tail(msgs))
                 IN [lines |-> first.lines \o rest.lines, exc |-> rest.exc]

\* The elements a for loop over x[-3:] visits: of a list its last entries, of
\* a str its last characters; a dict cannot be sliced.
Sliceable(x) == x.t \in {"str", "list"}
SliceLast(x, n) ==
    IF x.t = "list" THEN LastOf(x.l, n)
    ELSE [i \in 1..Len(LastOf(x.s, n)) |-> PyStr(<<LastOf(x.s, n)[i]>>)]

\* Lines 49-59.
messages_section(parsed) ==
    IF "messages" \notin DOMAIN parsed.d THEN Ran(<<>>)
    ELSE LET msgs == parsed.d["messages"]
         IN IF ~HasLen(msgs) THEN Raised(<<>>, "TypeError")
            ELSE LET count == LogLine(Label("MESSAGES"), <<PyInt(PyLen(msgs))>>)
                 IN IF ~Sliceable(msgs) THEN Raised(<<count>>, "TypeError")
                    ELSE LET shown == message_previews(SliceLast(msgs, LastMessages))
                         IN [lines |-> <<count>> \o shown.lines, exc |-> shown.exc]

\* Lines 46-61: the body of the try statement.
request_preview(body) ==
    LET loaded == json_loads(body)
    IN IF loaded.exc # "none" THEN Raised(<<>>, loaded.exc)
       ELSE IF ~HasGet(loaded.val) THEN Raised(<<>>, "AttributeError")
       ELSE LET parsed == loaded.val
                model == LogLine(Label("MODEL"), <<Get(parsed, "model", PyStr(Chars("?")))>>)
                msgs == messages_section(parsed)
            IN IF msgs.exc # "none" THEN Raised(<<model>> \o msgs.lines, msgs.exc)
               ELSE IF Truthy(Get(parsed, "stream", None))
               THEN Ran(<<model>> \o msgs.lines \o <<LogLine(Label("STREAM"), <<Label("enabled")>>)>>)
               ELSE Ran(<<model>> \o msgs.lines)

\* Lines 44-63: the request body section of the log.
observe_request(logging, body) ==
    IF ~(logging /\ body # <<>>) THEN Ran(<<>>)
    ELSE LET tried == request_preview(body)
         IN IF tried.exc \in {"JSONDecodeError", "AttributeError"}
            THEN Ran(tried.lines \o
                     <<LogLine(Label("BODY"), <<PyInt(ByteLen(body)), Label("bytes (not JSON)")>>)>>)
            ELSE tried

(***************************************************************************)
(* What stream_and_log() and print() put on sys.stdout besides log lines.  *)
(***************************************************************************)
TextWrite(text) == [ev |-> "write", label |-> None, message |-> <<text>>]
Newline == [ev |-> "print", label |-> None, message |-> <<>>]

\* Lines 94-104: one line of a decoded chunk.
observe_line(line) ==
    IF ~(line # <<>> /\ Head(line) = DataPrefix /\ line # <<DataPrefix, DoneMarker>>)
    THEN Ran(<<>>)
    ELSE LET loaded == loads(Tail(line))
         IN IF loaded.exc # "none" THEN Ran(<<>>)
            ELSE LET data == loaded.val
                 IN IF ~CanContain(data) THEN Raised(<<>>, "TypeError")
                    ELSE IF ~Contains(data, "delta") THEN Ran(<<>>)
                    ELSE IF ~CanSubscript(data, "delta")
                    THEN Raised(<<>>, SubscriptError(data, "delta"))
                    ELSE LET delta == data.d["delta"]
                         IN IF ~CanContain(delta) THEN Raised(<<>>, "TypeError")
                            ELSE IF ~Contains(delta, "text") THEN Ran(<<>>)
                            ELSE IF ~CanSubscript(delta, "text")
                            THEN Raised(<<>>, SubscriptError(delta, "text"))
                            ELSE IF delta.d["text"].t # "str"
                            THEN Raised(<<>>, "TypeError")
                            ELSE Ran(<<TextWrite(delta.d["text"])>>)

\* Lines 93-104: the loop over the lines, left at the first exception.
RECURSIVE observe_lines(_)
observe_lines(lines) ==
    IF lines = <<>> THEN Ran(<<>>)
    ELSE LET first == observe_line(Head(lines))
         IN IF first.exc # "none" THEN first
            ELSE LET rest == observe_lines(Tail(lines))
                 IN [lines |-> first.lines \o rest.lines, exc |-> rest.exc]

\* The chunk is previewed whatever the flag says.
observe_chunk_always(logging, chunk) ==
    observe_lines(split(strip(decode(chunk))))

\* Lines 91-104: what the relay loop does with a chunk before it yields it.
observe_chunk(logging, chunk) ==
    IF ~logging THEN Ran(<<>>)
    ELSE observe_lines(split(strip(decode(chunk))))

\* The elements a for loop over x visits.
Iterable(x) == x.t \in {"str", "list", "dict"}
RECURSIVE KeysOf(_)
KeysOf(keys) ==
    IF keys = {} THEN <<>>
    ELSE LET k == CHOOSE e \in keys : TRUE IN <<PyStr(<<k>>)>> \o KeysOf(keys \ {k})
Elements(x) ==
    CASE x.t = "list" -> x.l
      [] x.t = "str" -> [i \in 1..Len(x.s) |-> PyStr(<<x.s[i]>>)]
      [] x.t = "dict" -> KeysOf(DOMAIN x.d)

\* json.dumps(value), as the value it serializes.
json_dumps(value) == [t |-> "json", of |-> value]

\* Lines 124-126: one element of the content field.
text_block(block) ==
    IF ~HasGet(block) THEN Raised(<<>>, "AttributeError")
    ELSE IF Get(block, "type", None) # Word("text") THEN Ran(<<>>)
    ELSE IF ~CanSubscript(block, "text") THEN Raised(<<>>, SubscriptError(block, "text"))
    ELSE LET text == block.d["text"]
         IN CASE text.t = "str" ->
                    log(Label("TEXT"), <<PyStr(Preview(text.s, ResponsePreviewLen))>>)
              [] text.t = "list" -> Raised(<<>>, "AttributeError")
              [] OTHER -> Raised(<<>>, "TypeError")

\* Lines 123-126: the loop over the content blocks, left at the first exception.
RECURSIVE text_blocks(_)
text_blocks(blocks) ==
    IF blocks = <<>> THEN Ran(<<>>)
    ELSE LET first == text_block(Head(blocks))
         IN IF first.exc # "none" THEN first
            ELSE LET rest == text_blocks(Tail(blocks))
                 IN [lines |-> first.lines \o rest.lines, exc |-> rest.exc]

\* Lines 121-128: the body of the try statement.
response_preview(response_body) ==
    LET loaded == json_loads(response_body)
    IN IF loaded.exc # "none" THEN Raised(<<>>, loaded.exc)
       ELSE LET parsed == loaded.val
            IN IF ~CanContain(parsed) THEN Raised(<<>>, "TypeError")
               ELSE IF Contains(parsed, "content")
               THEN IF ~CanSubscript(parsed, "content")
                    THEN Raised(<<>>, SubscriptError(parsed, "content"))
                    ELSE IF ~Iterable(parsed.d["content"]) THEN Raised(<<>>, "TypeError")
                    ELSE text_blocks(Elements(parsed.d["content"]))
               ELSE IF Contains(parsed, "error")
               THEN IF ~CanSubscript(parsed, "error")
                    THEN Raised(<<>>, SubscriptError(parsed, "error"))
                    ELSE log(Label("ERROR"), <<json_dumps(parsed.d["error"])>>)
               ELSE Ran(<<>>)

\* Lines 119-130: the preview of a buffered response body.
observe_response(logging, response_body) ==
    IF ~(logging /\ response_body # <<>>) THEN Ran(<<>>)
    ELSE LET tried == response_preview(response_body)
         IN IF tried.exc \in {"JSONDecodeError", "AttributeError"}
            THEN Ran(tried.lines)
            ELSE tried

(***************************************************************************)
(* Headers.  request.headers.items() is a sequence of <<key, value>>       *)
(* pairs; upstream.headers is an httpx.Headers over such a sequence, whose *)
(* lookups ignore the case of the key and join repeated values with ", ".  *)
(***************************************************************************)
\* k.lower()
Lower(k) ==
    CASE k = "Host" -> "host"
      [] k = "HOST" -> "host"
      [] k = "Transfer-Encoding" -> "transfer-encoding"
      [] k = "Content-Type" -> "content-type"
      [] k = "X-Api-Key" -> "x-api-key"
      [] OTHER -> k

\* Line 68: the keys that are not forwarded.
Dropped == {"host", "transfer-encoding"}

\* The dict a comprehension or dict() builds from pairs: the last value of a
\* key wins.
DictOf(items) ==
    [k \in {items[i][1] : i \in 1..Len(items)} |->
        items[CHOOSE i \in 1..Len(items) :
                  items[i][1] = k /\ \A j \in (i + 1)..Len(items) : items[j][1] # k][2]]

\* The comparison without k.lower().
forward_headers_exact(items) ==
    DictOf(SelectSeq(items, LAMBDA h : h[1] \notin Dropped))

\* Lines 66-69.
forward_headers(items) ==
    DictOf(SelectSeq(items, LAMBDA h : Lower(h[1]) \notin Dropped))

\* httpx.Headers[key]: the values of the key, joined.
RECURSIVE Joined(_, _)
Joined(items, key) ==
    IF items = <<>> THEN <<>>
    ELSE LET rest == Joined(Tail(items), key)
         IN IF Lower(Head(items)[1]) # key THEN rest
            ELSE IF rest = <<>> THEN Head(items)[2]
            ELSE Head(items)[2] \o <<", ">> \o rest

HeaderKeys(items) == {Lower(items[i][1]) : i \in 1..Len(items)}

\* upstream.headers.get(key, "")
headers_get(items, key) == IF key \in HeaderKeys(items) THEN Joined(items, key) ELSE <<>>

\* A dict in which the last value of a repeated key wins.
headers_dict_last(items) ==
    DictOf([i \in 1..Len(items) |-> <<Lower(items[i][1]), items[i][2]>>])

\* dict(upstream.headers)
headers_dict(items) == [k \in HeaderKeys(items) |-> Joined(items, k)]

EventStream == "text/event-stream"

\* The content type compared for equality.
event_stream_exact(items) == headers_get(items, "content-type") = <<EventStream>>

\* Lines 83-84: "text/event-stream" in content_type
event_stream(items) == EventStream \in Range(headers_get(items, "content-type"))

(***************************************************************************)
(* The state before a request, and the values a field holds before the     *)
(* handler assigns it.                                                     *)
(***************************************************************************)
NoRequest == [method |-> "", path |-> "", headers |-> <<>>, body |-> <<>>]
NoUpstream == [status_code |-> 0, headers |-> <<>>, body |-> <<>>, complete |-> TRUE]
NoResponse == [returned |-> FALSE, status_code |-> 0, headers |-> <<>>]

\* The frame of a request that has not arrived yet.
NoFrame ==
    [pc |-> "idle", request |-> NoRequest, headers |-> <<>>, upstream |-> NoUpstream,
     is_streaming |-> FALSE, client |-> "none", calls |-> 0, response |-> NoResponse,
     requested |-> 0, pulled |-> <<>>, relayed |-> <<>>, exception |-> "none"]

Init ==
    /\ LOG_BODIES \in BOOLEAN
    /\ other = NoFrame
    /\ pc = "idle"
    /\ request = NoRequest
    /\ headers = <<>>
    /\ upstream = NoUpstream
    /\ is_streaming = FALSE
    /\ client = "none"
    /\ calls = 0
    /\ response = NoResponse
    /\ requested = 0
    /\ pulled = <<>>
    /\ relayed = <<>>
    /\ stdout = <<>>
    /\ exception = "none"

\* Lines 37-71: the request arrives; it is logged and previewed, the headers
\* to forward are built and the upstream client is opened.  An exception of
\* the preview leaves proxy().
proxy_begin(requests) ==
    /\ pc = "idle"
    /\ \E r \in requests :
        LET seen == observe_request(LOG_BODIES, r.body)
        IN /\ request' = r
           /\ stdout' = stdout
                  \o <<LogLine(Label("REQUEST"), <<Label(r.method), Label(r.path)>>)>>
                  \o seen.lines
           /\ exception' = seen.exc
           /\ IF seen.exc = "none"
              THEN /\ headers' = forward_headers(r.headers)
                   /\ client' = "open"
                   /\ pc' = "send"
              ELSE /\ pc' = "raised"
                   /\ UNCHANGED <<headers, client>>
    /\ UNCHANGED <<LOG_BODIES, other, upstream, is_streaming, calls, response,
                   requested, pulled, relayed>>

\* Lines 72-87 and 110-114: the upstream call returns the response head.  A
\* streaming response is logged and returned at once, which leaves the
\* async with block and closes the client; the generator has not run yet.
send_returns(upstreams) ==
    /\ pc = "send"
    /\ \E u \in upstreams :
        /\ upstream' = u
        /\ calls' = calls + 1
        /\ is_streaming' = event_stream(u.headers)
        /\ IF event_stream(u.headers)
           THEN /\ stdout' = stdout \o
                       <<LogLine(Label("RESPONSE"), <<PyInt(u.status_code), Label("streaming")>>)>>
                /\ response' = [returned |-> TRUE, status_code |-> u.status_code,
                                headers |-> headers_dict(u.headers)]
                /\ client' = "closed"
                /\ pc' = "resume"
           ELSE /\ pc' = "aread"
                /\ UNCHANGED <<stdout, response, client>>
    /\ UNCHANGED <<LOG_BODIES, other, request, headers, requested, pulled, relayed, exception>>

\* The failed call is issued again.
send_fails_retry ==
    /\ pc = "send"
    /\ calls' = calls + 1
    /\ UNCHANGED <<LOG_BODIES, other, pc, request, headers, upstream, is_streaming, client, response,
                   requested, pulled, relayed, stdout, exception>>

\* The failure is caught and answered with a response of the proxy's own.
send_fails_recovered ==
    /\ pc = "send"
    /\ calls' = calls + 1
    /\ client' = "closed"
    /\ response' = [returned |-> TRUE, status_code |-> 502, headers |-> <<>>]
    /\ pc' = "done"
    /\ UNCHANGED <<LOG_BODIES, other, request, headers, upstream, is_streaming,
                   requested, pulled, relayed, stdout, exception>>

\* Lines 72-80: the upstream call fails (connection refused, DNS, timeout);
\* the exception leaves the async with block and proxy().
send_fails ==
    /\ pc = "send"
    /\ calls' = calls + 1
    /\ client' = "closed"
    /\ exception' = "ConnectError"
    /\ pc' = "raised"
    /\ UNCHANGED <<LOG_BODIES, other, request, headers, upstream, is_streaming, response,
                   requested, pulled, relayed, stdout>>

\* Lines 116-136: the whole body has been read; it is logged and previewed and
\* the response is returned.  An exception of the preview leaves proxy().
aread_returns ==
    /\ pc = "aread"
    /\ upstream.complete
    /\ LET response_body == upstream.body
           seen == observe_response(LOG_BODIES, response_body)
       IN /\ pulled' = <<response_body>>
          /\ stdout' = stdout
                 \o <<LogLine(Label("RESPONSE"),
                              <<PyInt(upstream.status_code), PyInt(ByteLen(response_body)),
                                Label("bytes")>>)>>
                 \o seen.lines
          /\ exception' = seen.exc
          /\ IF seen.exc = "none"
             THEN /\ response' = [returned |-> TRUE, status_code |-> upstream.status_code,
                                  headers |-> headers_dict(upstream.headers)]
                  /\ pc' = "body"
             ELSE /\ pc' = "raised"
                  /\ UNCHANGED response
    /\ client' = "closed"
    /\ UNCHANGED <<LOG_BODIES, other, request, headers, upstream, is_streaming, calls,
                   requested, relayed>>

\* Line 116: the connection drops while the body is read.
aread_fails ==
    /\ pc = "aread"
    /\ ~upstream.complete
    /\ client' = "closed"
    /\ exception' = "ReadError"
    /\ pc' = "raised"
    /\ UNCHANGED <<LOG_BODIES, other, request, headers, upstream, is_streaming, calls, response,
                   requested, pulled, relayed, stdout>>

\* Line 133: the framework sends the one element of iter([response_body]).
body_sent ==
    /\ pc = "body"
    /\ relayed' = <<pulled[1]>>
    /\ pc' = "done"
    /\ UNCHANGED <<LOG_BODIES, other, request, headers, upstream, is_streaming, client, calls,
                   response, requested, pulled, stdout, exception>>

\* A line of an event stream.
Line(payload) == <<DataPrefix>> \o payload \o <<"\n">>

\* The bytes of the upstream body that no chunk has carried yet.
Consumed == Len(Concat(pulled))
Remaining == SubSeq(upstream.body, Consumed + 1, Len(upstream.body))

\* Line 90: the consumer resumes the generator, which asks upstream for the
\* next chunk.
stream_resume ==
    /\ pc = "resume"
    /\ requested' = requested + 1
    /\ pc' = "await"
    /\ UNCHANGED <<LOG_BODIES, other, request, headers, upstream, is_streaming, client, calls,
                   response, pulled, relayed, stdout, exception>>

\* Lines 90-105: a chunk arrives: some of the bytes upstream has left, all of
\* them when it is the last chunk the bound allows.  The chunk is previewed
\* and yielded; an exception of the preview ends the generator.
stream_chunk ==
    /\ pc = "await"
    /\ \E n \in 1..Len(Remaining) :
        /\ Len(pulled) + 1 = MaxChunks => n = Len(Remaining)
        /\ LET chunk == SubSeq(Remaining, 1, n)
               seen == observe_chunk(LOG_BODIES, chunk)
           IN /\ pulled' = Append(pulled, chunk)
              /\ stdout' = stdout \o seen.lines
              /\ exception' = seen.exc
              /\ IF seen.exc = "none"
                 THEN /\ relayed' = Append(relayed, chunk)
                      /\ pc' = "resume"
                 ELSE /\ pc' = "truncated"
                      /\ UNCHANGED relayed
    /\ UNCHANGED <<LOG_BODIES, other, request, headers, upstream, is_streaming, client, calls,
                   response, requested>>

\* The newline is printed only after text was written.
stream_ends_after_text ==
    /\ pc = "await"
    /\ Remaining = <<>>
    /\ upstream.complete
    /\ stdout' = stdout \o
           (IF LOG_BODIES
            THEN (IF \E i \in 1..Len(stdout) : stdout[i].ev = "write" THEN <<Newline>> ELSE <<>>)
                     \o <<LogLine(Label("DONE"), <<Label("stream complete")>>)>>
            ELSE <<>>)
    /\ pc' = "done"
    /\ UNCHANGED <<LOG_BODIES, other, request, headers, upstream, is_streaming, client, calls,
                   response, requested, pulled, relayed, exception>>

\* Lines 106-108: upstream has closed the body; the loop ends.
stream_ends ==
    /\ pc = "await"
    /\ Remaining = <<>>
    /\ upstream.complete
    /\ stdout' = stdout \o
           (IF LOG_BODIES
            THEN <<Newline, LogLine(Label("DONE"), <<Label("stream complete")>>)>>
            ELSE <<>>)
    /\ pc' = "done"
    /\ UNCHANGED <<LOG_BODIES, other, request, headers, upstream, is_streaming, client, calls,
                   response, requested, pulled, relayed, exception>>

\* The failure is answered with a completion marker of the proxy's own.
stream_fails_marker ==
    /\ pc = "await"
    /\ \/ (Remaining = <<>> /\ ~upstream.complete)
       \/ client = "closed"
    /\ exception' = "ReadError"
    /\ relayed' = Append(relayed, Line(<<DoneMarker>>))
    /\ pc' = "truncated"
    /\ UNCHANGED <<LOG_BODIES, other, request, headers, upstream, is_streaming, client, calls,
                   response, requested, pulled, stdout>>

\* Line 90: reading the next chunk raises: upstream dropped the connection, or
\* the read reached a connection that the closed client has released (bytes
\* that were already received may still be delivered before it does).
stream_fails ==
    /\ pc = "await"
    /\ \/ (Remaining = <<>> /\ ~upstream.complete)
       \/ client = "closed"
    /\ exception' = "ReadError"
    /\ pc' = "truncated"
    /\ UNCHANGED <<LOG_BODIES, other, request, headers, upstream, is_streaming, client, calls,
                   response, requested, pulled, relayed, stdout>>

\* The generator logs DONE also when it is closed before the stream has ended.
stream_cancelled_done ==
    /\ pc = "resume"
    /\ stdout' = stdout \o <<LogLine(Label("DONE"), <<Label("stream complete")>>)>>
    /\ pc' = "cancelled"
    /\ UNCHANGED <<LOG_BODIES, other, request, headers, upstream, is_streaming, client, calls,
                   response, requested, pulled, relayed, exception>>

\* The consumer of the response goes away; the suspended generator is closed.
stream_cancelled ==
    /\ pc = "resume"
    /\ pc' = "cancelled"
    /\ UNCHANGED <<LOG_BODIES, other, request, headers, upstream, is_streaming, client, calls,
                   response, requested, pulled, relayed, stdout, exception>>

\* The frame of the running coroutine: the locals of proxy() and of
\* stream_and_log(), and what the framework has made of the response.
Frame ==
    [pc |-> pc, request |-> request, headers |-> headers, upstream |-> upstream,
     is_streaming |-> is_streaming, client |-> client, calls |-> calls,
     response |-> response, requested |-> requested, pulled |-> pulled,
     relayed |-> relayed, exception |-> exception]

\* Lines 38, 72, 90, 105, 116: the running coroutine is suspended at an await
\* or a yield and the event loop runs the coroutine of the other request.
\* LOG_BODIES and sys.stdout belong to the module, not to a frame.
switch ==
    /\ other # Frame
    /\ other' = Frame
    /\ pc' = other.pc
    /\ request' = other.request
    /\ headers' = other.headers
    /\ upstream' = other.upstream
    /\ is_streaming' = other.is_streaming
    /\ client' = other.client
    /\ calls' = other.calls
    /\ response' = other.response
    /\ requested' = other.requested
    /\ pulled' = other.pulled
    /\ relayed' = other.relayed
    /\ exception' = other.exception
    /\ UNCHANGED <<LOG_BODIES, stdout>>

(***************************************************************************)
(* The inputs: inbound requests and upstream responses.                    *)
(***************************************************************************)
\* All sequences over a set, up to a length.
RECURSIVE SeqsUpTo(_, _)
SeqsUpTo(S, n) ==
    IF n = 0 THEN {<<>>}
    ELSE LET shorter == SeqsUpTo(S, n - 1)
         IN shorter \cup {Append(q, e) : q \in shorter, e \in S}

RequestBodies ==
    {<<>>, <<InvalidByte>>, <<"hello">>} \cup {<<doc>> : doc \in DOMAIN RequestDocuments}

UpstreamBodies ==
    { <<>>,
      Line(SplitDocument) \o Line(<<"{\"delta\":{\"text\":\"lo\"}}">>) \o Line(<<DoneMarker>>),
      Line(<<"5">>) \o Line(<<"{\"delta\":{\"text\":\"lo\"}}">>),
      Line(<<"{\"delta\":{\"text\":\"lo\"}}">>) \o Line(<<"{\"delta\":\"some text\"}">>),
      <<"event: ping", "\n">> \o Line(<<"{\"type\":\"ping\"}">>) \o <<DataPrefix, InvalidByte>>,
      Line(<<"{\"delta\":{\"stop_reason\":\"end_turn\"}}">>) \o <<DataPrefix, "{\"delta\":{\"text\":7}}">>,
      <<"id: 1 ", DataPrefix, "{\"delta\":{\"text\":\"lo\"}}", "\n">>,
      <<"{\"content\":[{\"type\":\"text\",\"text\":\"Hi\\nthere\"},{\"type\":\"tool_use\"}]}">>,
      <<"{\"content\":[{\"type\":\"text\"}]}">>,
      <<"{\"content\":5}">>,
      <<"{\"error\":{\"type\":\"overloaded\"}}">>,
      <<"5">>,
      <<"Bad Gateway">>,
      <<InvalidByte>> }

Json == <<"application/json">>
Sse == <<EventStream>>

\* The default inputs: every body, a few header lists.
Requests ==
    [method : {"POST"}, path : {"v1/messages"},
     headers : {<<>>, <<<<"Host", "proxy:8080">>, <<"X-Api-Key", "k">>>>},
     body : RequestBodies]

Upstreams ==
    [status_code : {200, 529},
     headers : {<<>>, <<<<"Content-Type", Json>>>>, <<<<"content-type", Sse>>>>,
                <<<<"Content-Type", Sse \o <<"; charset=utf-8">>>>, <<"x-request-id", <<"r1">>>>>>},
     body : UpstreamBodies,
     complete : BOOLEAN]

\* The header inputs: every header list of up to MaxHeaders entries, with few
\* bodies.
RequestHeaderKeys == {"host", "Host", "Transfer-Encoding", "X-Api-Key", "hostname"}
ResponseHeaderKeys == {"Content-Type", "content-type", "set-cookie"}
ResponseHeaderValues ==
    {Json, Sse, Sse \o <<"; charset=utf-8">>, <<"Text/Event-Stream">>, <<"text/event-strea", "m2">>}

HeaderRequests ==
    [method : {"GET", "POST"}, path : {"api/tags"},
     headers : SeqsUpTo(RequestHeaderKeys \X {"a", "B"}, MaxHeaders),
     body : {<<>>, <<"{}">>}]

FewUpstreams ==
    [status_code : {200},
     headers : {<<>>, <<<<"content-type", Sse>>>>},
     body : {<<"{\"error\":{\"type\":\"overloaded\"}}">>},
     complete : BOOLEAN]

FewRequests ==
    [method : {"POST"}, path : {"v1/messages"},
     headers : {<<<<"Host", "proxy:8080">>>>},
     body : {<<"{}">>}]

HeaderUpstreams ==
    [status_code : {200, 404},
     headers : SeqsUpTo(ResponseHeaderKeys \X ResponseHeaderValues, MaxHeaders),
     body : {<<"{\"error\":{\"type\":\"overloaded\"}}">>},
     complete : BOOLEAN]

\* The inputs of two requests in flight at once.
ConcurrentRequests ==
    [method : {"POST"}, path : {"v1/messages"}, headers : {<<>>}, body : {<<"{}">>}]

ConcurrentUpstreams ==
    [status_code : {200},
     headers : {<<<<"Content-Type", Json>>>>, <<<<"content-type", Sse>>>>},
     body : {<<DataPrefix, "{\"delta\":{\"text\":\"lo\"}}">>},
     complete : BOOLEAN]

(***************************************************************************)
(* The specifications.                                                     *)
(***************************************************************************)
Next ==
    \/ proxy_begin(Requests)
    \/ send_returns(Upstreams)
    \/ send_fails
    \/ aread_returns
    \/ aread_fails
    \/ body_sent
    \/ stream_resume
    \/ stream_chunk
    \/ stream_ends
    \/ stream_fails
    \/ stream_cancelled

Spec == Init /\ [][Next]_vars

NextRequestHeaders ==
    \/ proxy_begin(HeaderRequests)
    \/ send_returns(FewUpstreams)
    \/ send_fails
    \/ aread_returns
    \/ aread_fails
    \/ body_sent
    \/ stream_resume
    \/ stream_chunk
    \/ stream_ends
    \/ stream_fails
    \/ stream_cancelled

SpecRequestHeaders == Init /\ [][NextRequestHeaders]_vars

NextResponseHeaders ==
    \/ proxy_begin(FewRequests)
    \/ send_returns(HeaderUpstreams)
    \/ send_fails
    \/ aread_returns
    \/ aread_fails
    \/ body_sent
    \/ stream_resume
    \/ stream_chunk
    \/ stream_ends
    \/ stream_fails
    \/ stream_cancelled

SpecResponseHeaders == Init /\ [][NextResponseHeaders]_vars

NextConcurrent ==
    \/ proxy_begin(ConcurrentRequests)
    \/ send_returns(ConcurrentUpstreams)
    \/ send_fails
    \/ aread_returns
    \/ aread_fails
    \/ body_sent
    \/ stream_resume
    \/ stream_chunk
    \/ stream_ends
    \/ stream_fails
    \/ stream_cancelled
    \/ switch

SpecConcurrent == Init /\ [][NextConcurrent]_vars

(***************************************************************************)
(* What sys.stdout holds.                                                  *)
(***************************************************************************)
LogLines == SelectSeq(stdout, LAMBDA e : e.ev = "log")
TextWrites == SelectSeq(stdout, LAMBDA e : e.ev = "write")
Newlines == SelectSeq(stdout, LAMBDA e : e.ev = "print")
Logged(k) == \E i \in 1..Len(stdout) : stdout[i].ev = "log" /\ stdout[i].label = Label(k)

\* The exceptions that the preview code raises, and those of the upstream call.
PreviewExceptions ==
    {"TypeError", "KeyError", "AttributeError", "UnicodeDecodeError", "JSONDecodeError"}
UpstreamExceptions == {"ConnectError", "ReadError"}

(***************************************************************************)
(* C1.  The preview code never raises and never changes what is forwarded: *)
(* no exception of the preview code leaves proxy() or stream_and_log(),    *)
(* every chunk received from upstream is relayed, and a buffered body that *)
(* was read is returned with the upstream status, as when LOG_BODIES is    *)
(* off.                                                                    *)
(***************************************************************************)
Forwarded ==
    /\ exception \notin PreviewExceptions
    /\ is_streaming => relayed = pulled
    /\ (~is_streaming /\ pulled # <<>>) =>
           /\ response.returned
           /\ response.status_code = upstream.status_code
           /\ pc = "done" => relayed = <<upstream.body>>

ObserverNeverAffectsForwarding == Forwarded

\* With LOG_BODIES off the outcome is the one C1 compares with.
ForwardedWithoutLogging == ~LOG_BODIES => Forwarded

(***************************************************************************)
(* C2.  A request body that does not parse or is not an object gives       *)
(* exactly one line in the request body section of the log, BODY <N> bytes *)
(* (not JSON), and no exception leaves proxy().                            *)
(***************************************************************************)
NotJsonObject(body) ==
    body # <<>> /\ (json_loads(body).exc # "none" \/ json_loads(body).val.t # "dict")

MalformedBodyLogsOneLine ==
    (pc \in {"send", "raised"} /\ calls = 0 /\ LOG_BODIES /\ NotJsonObject(request.body)) =>
        /\ exception = "none"
        /\ Tail(stdout) =
               <<LogLine(Label("BODY"), <<PyInt(ByteLen(request.body)), Label("bytes (not JSON)")>>)>>

OneUpstreamCall ==
    /\ calls <= 1
    /\ pc = "done" => (calls = 1 /\ response.returned)
    /\ exception \in UpstreamExceptions => calls = 1

OneUpstreamCallWitness == pc = "done" /\ calls = 1 /\ response.returned /\ relayed # <<>>

(***************************************************************************)
(* C6.  A streaming response whose upstream emits its chunks and closes is *)
(* relayed whole: when the relay is over the client has every chunk,       *)
(* unchanged and in order, one relayed chunk per upstream chunk, and each  *)
(* chunk was relayed before the next one was requested.                    *)
(***************************************************************************)
StreamRelayedWhole ==
    /\ (is_streaming /\ upstream.complete /\ pc \in {"done", "truncated"}) =>
           /\ relayed = pulled
           /\ Concat(relayed) = upstream.body
    /\ is_streaming => requested <= Len(relayed) + 1

(***************************************************************************)
(* C7.  With LOG_BODIES on, the text written to sys.stdout during a stream *)
(* is the concatenation, in order, of delta.text of the lines of the       *)
(* chunks received that begin with "data: ", are not "data: [DONE]" and    *)
(* parse; every other line contributes nothing.                            *)
(***************************************************************************)
DeltaText(line) ==
    IF line = <<>> \/ Head(line) # DataPrefix \/ line = <<DataPrefix, DoneMarker>> THEN <<>>
    ELSE LET loaded == loads(Tail(line))
         IN IF loaded.exc # "none" THEN <<>>
            ELSE IF loaded.val.t # "dict" THEN <<>>
            ELSE IF "delta" \notin DOMAIN loaded.val.d THEN <<>>
            ELSE IF loaded.val.d["delta"].t # "dict" THEN <<>>
            ELSE IF "text" \notin DOMAIN loaded.val.d["delta"].d THEN <<>>
            ELSE IF loaded.val.d["delta"].d["text"].t # "str" THEN <<>>
            ELSE <<loaded.val.d["delta"].d["text"]>>

RECURSIVE DeltaTexts(_)
DeltaTexts(lines) ==
    IF lines = <<>> THEN <<>> ELSE DeltaText(Head(lines)) \o DeltaTexts(Tail(lines))

RECURSIVE ChunkTexts(_)
ChunkTexts(chunks) ==
    IF chunks = <<>> THEN <<>>
    ELSE DeltaTexts(split(strip(decode(Head(chunks))))) \o ChunkTexts(Tail(chunks))

Written == [i \in 1..Len(TextWrites) |-> TextWrites[i].message[1]]

LiveTextIsDeltaText ==
    (is_streaming /\ LOG_BODIES) => Written = ChunkTexts(pulled)

HasEventStreamType ==
    \E i \in 1..Len(upstream.headers) :
        /\ Lower(upstream.headers[i][1]) = "content-type"
        /\ \E j \in 1..Len(upstream.headers[i][2]) : upstream.headers[i][2][j] = "text/event-stream"

StreamingIffEventStream ==
    calls = 1 /\ exception # "ConnectError" =>
        /\ is_streaming <=> HasEventStreamType
        /\ pc \in {"resume", "await", "truncated", "cancelled"} => is_streaming
        /\ pc \in {"aread", "body"} => ~is_streaming
        /\ ~is_streaming =>
               /\ requested = 0
               /\ response.returned => pulled = <<upstream.body>>
               /\ relayed # <<>> => (relayed = <<upstream.body>> /\ response.returned)

StreamingIffEventStreamWitness ==
    /\ pc = "done"
    /\ ~is_streaming
    /\ relayed = <<upstream.body>>
    /\ \E i \in 1..Len(upstream.headers) : upstream.headers[i] = <<"Content-Type", <<"Text/Event-Stream">>>>

(***************************************************************************)
(* C10.  When the upstream call fails, the failure leaves proxy(): no      *)
(* response is returned, no RESPONSE line is logged, nothing is relayed    *)
(* and no second call is made.                                             *)
(***************************************************************************)
SendFailed == calls >= 1 /\ upstream = NoUpstream

SendFailurePropagates ==
    SendFailed =>
        /\ pc = "raised"
        /\ exception = "ConnectError"
        /\ ~response.returned
        /\ ~Logged("RESPONSE")
        /\ relayed = <<>>
        /\ calls = 1

SendFailurePropagatesWitness ==
    /\ SendFailed
    /\ Logged("REQUEST")
    /\ Logged("MODEL")

(***************************************************************************)
(* C11.  With LOG_BODIES on, a request body that parses to an object with  *)
(* a messages field that is a list of n entries logs MESSAGES n and then   *)
(* one line for each of the last min(3, n) entries, in their order: the    *)
(* first 120 characters of a str content, newlines as spaces, or the       *)
(* number of content blocks.  A messages field that is not a list logs no  *)
(* MESSAGES line and no preview line.  No exception leaves proxy().        *)
(***************************************************************************)
HasMessages(body) ==
    /\ body # <<>>
    /\ json_loads(body).exc = "none"
    /\ json_loads(body).val.t = "dict"
    /\ "messages" \in DOMAIN json_loads(body).val.d

PreviewOf(msg, line) ==
    /\ line.ev = "log"
    /\ IF msg.t = "dict" /\ Get(msg, "content", PyStr(<<>>)).t = "str"
       THEN line.message = <<PyStr(Preview(Get(msg, "content", PyStr(<<>>)).s, RequestPreviewLen))>>
       ELSE Len(line.message) = 2 /\ line.message[2] = Label("content blocks")

MessagesPreviewed ==
    (pc \in {"send", "raised"} /\ calls = 0 /\ LOG_BODIES /\ HasMessages(request.body)) =>
        LET parsed == json_loads(request.body).val
            msgs == parsed.d["messages"]
            section == SubSeq(stdout, 3, Len(stdout))
        IN /\ exception = "none"
           /\ IF msgs.t = "list"
              THEN LET shown == LastOf(msgs.l, LastMessages)
                   IN /\ Len(section) >= 1 + Len(shown)
                      /\ section[1] = LogLine(Label("MESSAGES"), <<PyInt(Len(msgs.l))>>)
                      /\ \A i \in 1..Len(shown) : PreviewOf(shown[i], section[i + 1])
                      /\ \A i \in (Len(shown) + 2)..Len(section) :
                             section[i].label = Label("STREAM")
              ELSE /\ ~Logged("MESSAGES")
                   /\ \A i \in 1..Len(section) : section[i].label = Label("STREAM")

(***************************************************************************)
(* C12.  With LOG_BODIES on, a buffered body that is not empty logs, after *)
(* the RESPONSE line: one TEXT line (200 characters, newlines as spaces)   *)
(* for each element of a list content whose type is text, in order; else   *)
(* one ERROR line with the serialized error field; and nothing when the    *)
(* body does not parse or has neither field.  In each case the response is *)
(* returned with the status and the bytes of upstream.                     *)
(***************************************************************************)
RECURSIVE TextLines(_)
TextLines(blocks) ==
    IF blocks = <<>> THEN <<>>
    ELSE LET block == Head(blocks)
         IN (IF /\ block.t = "dict"
                /\ Get(block, "type", None) = Word("text")
                /\ Get(block, "text", None).t = "str"
             THEN <<LogLine(Label("TEXT"), <<PyStr(Preview(block.d["text"].s, ResponsePreviewLen))>>)>>
             ELSE <<>>)
            \o TextLines(Tail(blocks))

PreviewLines(response_body) ==
    LET loaded == json_loads(response_body)
    IN IF loaded.exc # "none" \/ loaded.val.t # "dict" THEN <<>>
       ELSE IF Get(loaded.val, "content", None).t = "list"
       THEN TextLines(loaded.val.d["content"].l)
       ELSE IF "error" \in DOMAIN loaded.val.d
       THEN <<LogLine(Label("ERROR"), <<json_dumps(loaded.val.d["error"])>>)>>
       ELSE <<>>

AfterResponseLine ==
    LET i == CHOOSE j \in 1..Len(stdout) :
                 stdout[j].ev = "log" /\ stdout[j].label = Label("RESPONSE")
    IN SubSeq(stdout, i + 1, Len(stdout))

BufferedPreviewed ==
    (~is_streaming /\ pulled # <<>> /\ LOG_BODIES /\ upstream.body # <<>>) =>
        /\ Logged("RESPONSE")
        /\ AfterResponseLine = PreviewLines(upstream.body)
        /\ exception = "none"
        /\ response.returned
        /\ response.status_code = upstream.status_code
        /\ pc = "done" => relayed = <<upstream.body>>

(***************************************************************************)
(* C13.  With LOG_BODIES off, sys.stdout holds nothing but the REQUEST     *)
(* line with the method and the path and, once the response head or body   *)
(* is there, one RESPONSE line: no line of a preview, no text, no newline, *)
(* no DONE; and no payload is parsed, so no exception of the preview code  *)
(* is raised whatever the payloads are.                                    *)
(***************************************************************************)
OnlyRequestAndResponseLogged ==
    ~LOG_BODIES =>
        /\ \A i \in 1..Len(stdout) :
               stdout[i].ev = "log" /\ stdout[i].label \in {Label("REQUEST"), Label("RESPONSE")}
        /\ Len(stdout) <= 2
        /\ pc # "idle" =>
               stdout[1] = LogLine(Label("REQUEST"), <<Label(request.method), Label(request.path)>>)
        /\ Len(stdout) = 2 =>
               /\ stdout[2].label = Label("RESPONSE")
               /\ stdout[2].message[1] = PyInt(upstream.status_code)
        /\ exception \notin PreviewExceptions

OnlyRequestAndResponseLoggedWitness ==
    /\ ~LOG_BODIES
    /\ pc = "done"
    /\ is_streaming
    /\ HasMessages(request.body)
    /\ ChunkTexts(pulled) # <<>>
    /\ Len(stdout) = 2

(***************************************************************************)
(* C14.  The upstream client is opened before the upstream call, is open   *)
(* whenever the relay loop of a streaming response waits for a chunk or is *)
(* suspended with chunks still to relay, and is closed when the request is *)
(* over: after the relay has completed, after a failure of upstream and    *)
(* after the consumer has gone away.                                       *)
(***************************************************************************)
ClientOpenWhileRelaying ==
    /\ calls >= 1 => client # "none"
    /\ pc \in {"send", "aread", "resume", "await"} => client = "open"
    /\ (pc \in {"body", "done", "truncated", "cancelled"} \/ (pc = "raised" /\ calls >= 1)) =>
           client = "closed"

(***************************************************************************)
(* C15.  In every state of a streaming relay the chunks relayed are the    *)
(* first chunks received from upstream, unchanged and in order, so the     *)
(* bytes relayed are a prefix of the bytes upstream has emitted; a relay   *)
(* that upstream or a failure cut short has relayed those chunks and no    *)
(* other byte; at most the chunk in hand is held, and each request to      *)
(* upstream asks for the next chunk, never for one again.                  *)
(***************************************************************************)
IsPrefix(a, b) == Len(a) <= Len(b) /\ SubSeq(b, 1, Len(a)) = a

RelayedIsPrefixOfEmitted ==
    is_streaming =>
        /\ IsPrefix(relayed, pulled)
        /\ IsPrefix(Concat(pulled), upstream.body)
        /\ IsPrefix(Concat(relayed), upstream.body)
        /\ Len(pulled) <= Len(relayed) + 1
        /\ requested \in {Len(pulled), Len(pulled) + 1}
        /\ exception = "ReadError" => relayed = pulled

RelayedIsPrefixOfEmittedWitness ==
    /\ is_streaming
    /\ pc = "truncated"
    /\ exception = "ReadError"
    /\ ~upstream.complete
    /\ Len(relayed) >= 2
    /\ Remaining = <<>>

(***************************************************************************)
(* The log of a streaming request: REQUEST is the first line, the line     *)
(* RESPONSE <status> (streaming) follows it and precedes every text write, *)
(* every relayed chunk and DONE; DONE stream complete is logged exactly    *)
(* when done holds, and then it is the last line and every chunk of the    *)
(* upstream body has been relayed.                                         *)
(***************************************************************************)
StreamLogOrder(done) ==
    is_streaming =>
        /\ stdout[1].ev = "log" /\ stdout[1].label = Label("REQUEST")
        /\ \E i \in 2..Len(stdout) :
               /\ stdout[i] = LogLine(Label("RESPONSE"),
                                      <<PyInt(upstream.status_code), Label("streaming")>>)
               /\ \A j \in 1..Len(stdout) :
                      (stdout[j].ev # "log" \/ stdout[j].label = Label("DONE")) => i < j
        /\ \A k \in {"REQUEST", "RESPONSE", "DONE"} :
               Cardinality({i \in 1..Len(stdout) :
                               stdout[i].ev = "log" /\ stdout[i].label = Label(k)}) <= 1
        /\ Logged("DONE") <=> done
        /\ Logged("DONE") =>
               /\ stdout[Len(stdout)].label = Label("DONE")
               /\ relayed = pulled
               /\ Concat(relayed) = upstream.body

(***************************************************************************)
(* C16 as claimed: the log of a streaming request is ordered REQUEST,      *)
(* RESPONSE, DONE, and DONE is logged exactly for the streams that have    *)
(* ended normally.                                                         *)
(***************************************************************************)
DoneForEveryNormalEnd == StreamLogOrder(pc = "done")

(***************************************************************************)
(* C16 as amended: the log of a streaming request is ordered REQUEST,      *)
(* RESPONSE, DONE, and DONE is logged exactly for the streams that have    *)
(* ended normally with LOG_BODIES on: never for a stream that was cut      *)
(* short, and never with LOG_BODIES off.                                   *)
(***************************************************************************)
DoneForNormalEndWhenLogging == StreamLogOrder(pc = "done" /\ LOG_BODIES)

DoneForNormalEndWhenLoggingWitness ==
    /\ is_streaming
    /\ pc = "done"
    /\ LOG_BODIES
    /\ Len(relayed) >= 2
    /\ TextWrites # <<>>
    /\ Logged("DONE")

(***************************************************************************)
(* C17.  With two requests in flight, whatever the interleaving: no log    *)
(* line is appended to sys.stdout right after text that no newline has     *)
(* ended, so every log line is a whole line of its own; and the response   *)
(* of each request has the status of its own upstream response and relays  *)
(* bytes of its own upstream body.                                         *)
(***************************************************************************)
FromOwnUpstream(frame) ==
    /\ frame.response.returned => frame.response.status_code = frame.upstream.status_code
    /\ IsPrefix(Concat(frame.relayed), frame.upstream.body)

LogLinesAreWholeLines ==
    /\ \A i \in 2..Len(stdout) : stdout[i].ev = "log" => stdout[i - 1].ev # "write"
    /\ FromOwnUpstream(Frame)
    /\ FromOwnUpstream(other)

====
